---- MODULE Spec2Model ----
(***************************************************************************)
(* COSStorage (src/aury/sdk/storage/storage/cos.py): the signed-request    *)
(* layer of the Tencent COS backend.  A Python str or bytes value is a     *)
(* sequence of one-character strings, None is the empty option <<>> and a  *)
(* present value x is <<x>>.                                               *)
(***************************************************************************)
EXTENDS Integers, Sequences, FiniteSets, TLC

VARIABLES
    config,     \* self._config: the StorageConfig given to __init__
    client,     \* self._client: 0 is None, otherwise the id of the held client
    clients,    \* every httpx.AsyncClient created so far: id -> "open" | "closed"
    call,       \* the operation in progress or last finished (sequential use)
    signIn,     \* arguments of a direct _sign call
    signOut,    \* what that _sign call computed
    batch,      \* an upload_files call: its coroutines and the gather future
    coros       \* coroutines running concurrently on the one COSStorage

vars == <<config, client, clients, call, signIn, signOut, batch, coros>>

None == <<>>
Some(x) == <<x>>

(***************************************************************************)
(* Python str primitives.                                                  *)
(***************************************************************************)
\* The characters of the model in code-point order (the order str.__lt__ uses).
Ascii ==
    <<"\n", " ", "\"", "%", "&", "-", ".", "/",
      "0", "1", "2", "3", "4", "5", "6", "7", "8", "9",
      ":", ";", "=", "?",
      "A", "B", "C", "D", "E", "F", "G", "H", "I", "J", "K", "L", "M",
      "N", "O", "P", "Q", "R", "S", "T", "U", "V", "W", "X", "Y", "Z",
      "_",
      "a", "b", "c", "d", "e", "f", "g", "h", "i", "j", "k", "l", "m",
      "n", "o", "p", "q", "r", "s", "t", "u", "v", "w", "x", "y", "z",
      "~">>

Ord(c) == CHOOSE i \in 1..Len(Ascii) : Ascii[i] = c

Upper == <<"A","B","C","D","E","F","G","H","I","J","K","L","M","N","O","P","Q","R","S","T","U","V","W","X","Y","Z">>
Lower == <<"a","b","c","d","e","f","g","h","i","j","k","l","m","n","o","p","q","r","s","t","u","v","w","x","y","z">>
Digits == <<"0","1","2","3","4","5","6","7","8","9">>

InSeq(c, s) == \E i \in 1..Len(s) : s[i] = c

\* str.lower, one character
LowerChar(c) ==
    IF InSeq(c, Upper) THEN Lower[CHOOSE i \in 1..Len(Upper) : Upper[i] = c] ELSE c

\* str.lower
lower(s) == [i \in 1..Len(s) |-> LowerChar(s[i])]

RECURSIVE StrLT(_, _)
\* a < b on str: lexicographic by code point
StrLT(a, b) ==
    IF b = <<>> THEN FALSE
    ELSE IF a = <<>> THEN TRUE
    ELSE IF Ord(Head(a)) < Ord(Head(b)) THEN TRUE
    ELSE IF Ord(Head(a)) > Ord(Head(b)) THEN FALSE
    ELSE StrLT(Tail(a), Tail(b))

\* s.startswith(p)
startswith(s, p) == Len(s) >= Len(p) /\ SubSeq(s, 1, Len(p)) = p

\* sub in s
contains(s, sub) ==
    \E i \in 1..(Len(s) - Len(sub) + 1) : SubSeq(s, i, i + Len(sub) - 1) = sub

RECURSIVE rstrip(_, _)
\* s.rstrip(c)
rstrip(s, c) ==
    IF s # <<>> /\ s[Len(s)] = c THEN rstrip(SubSeq(s, 1, Len(s) - 1), c) ELSE s

RECURSIVE lstrip(_, _)
lstrip(s, c) == IF s # <<>> /\ s[1] = c THEN lstrip(Tail(s), c) ELSE s

\* s.strip(c)
strip(s, c) == rstrip(lstrip(s, c), c)

RECURSIVE Join(_, _)
\* sep.join(parts)
Join(sep, parts) ==
    IF parts = <<>> THEN <<>>
    ELSE IF Len(parts) = 1 THEN parts[1]
    ELSE parts[1] \o sep \o Join(sep, Tail(parts))

RECURSIVE Str(_)
\* str(n) for n >= 0
Str(n) == IF n < 10 THEN <<Digits[n + 1]>> ELSE Str(n \div 10) \o <<Digits[(n % 10) + 1]>>

DigitValue(c) == (CHOOSE i \in 1..10 : Digits[i] = c) - 1

RECURSIVE ParseInt(_)
\* int(s) for a non-empty string of decimal digits
ParseInt(s) ==
    IF Len(s) = 1 THEN DigitValue(s[1])
    ELSE 10 * ParseInt(SubSeq(s, 1, Len(s) - 1)) + DigitValue(s[Len(s)])

\* urllib.parse.quote: the two hex digits of each reserved character
PercentHex(c) ==
    CASE c = "\n" -> <<"0","A">>
      [] c = " " -> <<"2","0">>
      [] c = "\"" -> <<"2","2">>
      [] c = "%" -> <<"2","5">>
      [] c = "&" -> <<"2","6">>
      [] c = "/" -> <<"2","F">>
      [] c = ":" -> <<"3","A">>
      [] c = ";" -> <<"3","B">>
      [] c = "=" -> <<"3","D">>
      [] c = "?" -> <<"3","F">>

AlwaysSafe == Upper \o Lower \o Digits \o <<"_",".","-","~">>

RECURSIVE quote(_, _)
\* urllib.parse.quote(s, safe=safe)
quote(s, safe) ==
    IF s = <<>> THEN <<>>
    ELSE (IF InSeq(Head(s), AlwaysSafe) \/ InSeq(Head(s), safe)
          THEN <<Head(s)>>
          ELSE <<"%">> \o PercentHex(Head(s)))
         \o quote(Tail(s), safe)

\* hashlib.sha1(m).hexdigest(): an injective stand-in for the digest
sha1_hexdigest(m) == <<"sha1(">> \o m \o <<")">>

\* hmac.new(key, m, hashlib.sha1).hexdigest(): an injective stand-in
hmac_sha1_hexdigest(key, m) == <<"hmac(">> \o key \o <<"|">> \o m \o <<")">>

(***************************************************************************)
(* dict helpers: a dict is a function from its keys to its values.         *)
(***************************************************************************)
RECURSIVE SetToSeq(_)
SetToSeq(S) ==
    IF S = {} THEN <<>>
    ELSE LET x == CHOOSE y \in S : TRUE IN <<x>> \o SetToSeq(S \ {x})

\* list(d.items()): the (key, value) pairs
items(d) == SetToSeq({<<k, d[k]>> : k \in DOMAIN d})

\* (k1, v1) < (k2, v2) on tuples of str
ItemLT(a, b) == StrLT(a[1], b[1]) \/ (a[1] = b[1] /\ StrLT(a[2], b[2]))

RECURSIVE InsertItem(_, _)
InsertItem(x, s) ==
    IF s = <<>> THEN <<x>>
    ELSE IF ItemLT(x, Head(s)) THEN <<x>> \o s
    ELSE <<Head(s)>> \o InsertItem(x, Tail(s))

RECURSIVE sorted_items(_)
\* sorted(d.items()): ascending by the key as written
sorted_items(its) ==
    IF its = <<>> THEN <<>> ELSE InsertItem(Head(its), sorted_items(Tail(its)))

RECURSIVE InsertStr(_, _)
InsertStr(x, s) ==
    IF s = <<>> THEN <<x>>
    ELSE IF StrLT(x, Head(s)) THEN <<x>> \o s
    ELSE <<Head(s)>> \o InsertStr(x, Tail(s))

RECURSIVE sorted_strs(_)
\* sorted(list of str)
sorted_strs(l) ==
    IF l = <<>> THEN <<>> ELSE InsertStr(Head(l), sorted_strs(Tail(l)))

EmptyDict == [k \in {} |-> <<>>]

\* d with d[k] = v set
DictSet(d, k, v) == [x \in (DOMAIN d) \cup {k} |-> IF x = k THEN v ELSE d[x]]

(***************************************************************************)
(* Exceptions: a computation either returns a value or raises.             *)
(***************************************************************************)
Return(v) == [raised |-> FALSE, value |-> v]
Raise(kind, why) == [raised |-> TRUE, kind |-> kind, why |-> why]

(***************************************************************************)
(* Bucket and host resolution.                                             *)
(***************************************************************************)
\* COSStorage._get_bucket
_get_bucket(cfg, bucket_name) ==
    LET bucket == IF bucket_name # <<>> THEN bucket_name ELSE cfg.bucket_name
    IN  IF bucket = <<>>
        THEN Raise("StorageBackendError", "bucket")
        ELSE Return(bucket)

\* COSStorage._get_host
_get_host(cfg, bucket) ==
    IF cfg.endpoint # <<>>
    THEN LET e0 == cfg.endpoint
             e1 == IF startswith(e0, <<"h","t","t","p","s",":","/","/">>) THEN SubSeq(e0, 9, Len(e0))
                   ELSE IF startswith(e0, <<"h","t","t","p",":","/","/">>) THEN SubSeq(e0, 8, Len(e0))
                   ELSE e0
             endpoint == rstrip(e1, "/")
         IN  IF contains(endpoint, bucket)
             THEN Return(endpoint)
             ELSE Return(bucket \o <<".">> \o endpoint)
    ELSE IF cfg.region = <<>>
         THEN Raise("StorageBackendError", "region")
         ELSE Return(bucket \o <<".","c","o","s",".">> \o cfg.region \o <<".","m","y","q","c","l","o","u","d",".","c","o","m">>)

(***************************************************************************)
(* The signature.                                                          *)
(***************************************************************************)
valid_headers ==
    { <<"c","a","c","h","e","-","c","o","n","t","r","o","l">>, <<"c","o","n","t","e","n","t","-","d","i","s","p","o","s","i","t","i","o","n">>, <<"c","o","n","t","e","n","t","-","e","n","c","o","d","i","n","g">>,
      <<"c","o","n","t","e","n","t","-","t","y","p","e">>, <<"c","o","n","t","e","n","t","-","m","d","5">>, <<"c","o","n","t","e","n","t","-","l","e","n","g","t","h">>, <<"e","x","p","e","c","t">>,
      <<"e","x","p","i","r","e","s">>, <<"h","o","s","t">>, <<"i","f","-","m","a","t","c","h">>, <<"i","f","-","m","o","d","i","f","i","e","d","-","s","i","n","c","e">>,
      <<"i","f","-","n","o","n","e","-","m","a","t","c","h">>, <<"i","f","-","u","n","m","o","d","i","f","i","e","d","-","s","i","n","c","e">>, <<"o","r","i","g","i","n">>, <<"r","a","n","g","e">>,
      <<"t","r","a","n","s","f","e","r","-","e","n","c","o","d","i","n","g">> }

\* COSStorage._filter_headers
_filter_headers(headers) ==
    LET keep == { k \in DOMAIN headers :
                    lower(k) \in valid_headers \/ startswith(lower(k), <<"x","-","c","o","s","-">>) }
    IN  [k \in keep |-> headers[k]]

\* One canonical string of _sign: the key=value pairs of sorted(d.items()),
\* each key lower-cased and both sides quoted.
canonical_pairs(d) ==
    LET its == sorted_items(items(d))
    IN  [i \in 1..Len(its) |->
            <<quote(lower(its[i][1]), <<"-","_",".","~">>), quote(its[i][2], <<"-","_",".","~">>)>>]

canonical_string(d) ==
    LET ps == canonical_pairs(d)
    IN  Join(<<"&">>, [i \in 1..Len(ps) |-> ps[i][1] \o <<"=">> \o ps[i][2]])

\* sorted(k.lower() for k in d.keys())
key_list(d) ==
    LET its == items(d)
    IN  sorted_strs([i \in 1..Len(its) |-> lower(its[i][1])])

\* COSStorage._sign; now is int(time.time())
_sign(cfg, method, path, params, headers, expire, now) ==
    IF cfg.access_key_id = <<>> \/ cfg.access_key_secret = <<>>
    THEN Raise("StorageBackendError", "credentials")
    ELSE
    LET sign_headers == _filter_headers(headers)
        param_str == canonical_string(params)
        header_str == canonical_string(sign_headers)
        http_string == lower(method) \o <<"\n">> \o path \o <<"\n">> \o param_str
                       \o <<"\n">> \o header_str \o <<"\n">>
        start_time == now - 60
        end_time == start_time + expire + 60
        sign_time == Str(start_time) \o <<";">> \o Str(end_time)
        sha1_hash == sha1_hexdigest(http_string)
        string_to_sign == <<"s","h","a","1","\n">> \o sign_time \o <<"\n">> \o sha1_hash \o <<"\n">>
        sign_key == hmac_sha1_hexdigest(cfg.access_key_secret, sign_time)
        signature == hmac_sha1_hexdigest(sign_key, string_to_sign)
    IN  Return(<<"q","-","s","i","g","n","-","a","l","g","o","r","i","t","h","m","=","s","h","a","1">>
               \o <<"&","q","-","a","k","=">> \o cfg.access_key_id
               \o <<"&","q","-","s","i","g","n","-","t","i","m","e","=">> \o sign_time
               \o <<"&","q","-","k","e","y","-","t","i","m","e","=">> \o sign_time
               \o <<"&","q","-","h","e","a","d","e","r","-","l","i","s","t","=">> \o Join(<<";">>, key_list(sign_headers))
               \o <<"&","q","-","u","r","l","-","p","a","r","a","m","-","l","i","s","t","=">> \o Join(<<";">>, key_list(params))
               \o <<"&","q","-","s","i","g","n","a","t","u","r","e","=">> \o signature)

(***************************************************************************)
(* Inputs.                                                                 *)
(***************************************************************************)
\* StorageConfig values: one complete configuration and its variations.
BaseConfig ==
    [bucket_name |-> <<"b","1">>, endpoint |-> <<>>, region |-> <<"g","z">>,
     access_key_id |-> <<"A","K">>, access_key_secret |-> <<"S","K">>, session_token |-> <<>>]

Configs ==
    { BaseConfig,
      [BaseConfig EXCEPT !.bucket_name = <<>>],
      [BaseConfig EXCEPT !.region = <<>>],
      [BaseConfig EXCEPT !.region = <<>>, !.endpoint = <<"h","t","t","p","s",":","/","/","e",".","c">>],
      [BaseConfig EXCEPT !.endpoint = <<"h","t","t","p",":","/","/","b","1",".","e",".","c","/">>],
      [BaseConfig EXCEPT !.access_key_id = <<>>],
      [BaseConfig EXCEPT !.access_key_secret = <<>>],
      [BaseConfig EXCEPT !.session_token = <<"T">>] }

BucketArgs == { <<>>, <<"b","2">> }
ObjectNames == { <<"k">>, <<"/","d","/","a"," ","b">> }
Payloads == { <<>>, <<"x","y">> }
Clock == { 1000, 2000 }

\* StorageFile values; data is None, bytes or a readable stream.
Files ==
    { [object_name |-> <<"k">>, data |-> [kind |-> "bytes", bytes |-> <<"x","y">>],
       content_type |-> <<>>, metadata |-> EmptyDict, bucket_name |-> <<>>],
      [object_name |-> <<"/","d","/","a"," ","b">>, data |-> [kind |-> "none", bytes |-> <<>>],
       content_type |-> <<"t","e","x","t","/","x">>, metadata |-> EmptyDict, bucket_name |-> <<"b","3">>],
      [object_name |-> <<"k">>, data |-> [kind |-> "stream", bytes |-> <<"x">>],
       content_type |-> <<>>,
       metadata |-> [k \in {<<"B">>, <<"a">>} |-> IF k = <<"a">> THEN <<"1">> ELSE <<"2">>],
       bucket_name |-> <<>>] }

\* HTTP status codes a server may answer with.
Statuses == { 200, 201, 204, 206, 301, 403, 404, 500 }

Response(status, headers, content) ==
    [kind |-> "response", status_code |-> status, headers |-> headers,
     content |-> content]

\* httpx.RequestError: the request got no response (DNS, connect, timeout).
TransportFailure == [kind |-> "RequestError"]

OneHeader(k, v) == [x \in {k} |-> v]

PutResponses ==
    { Response(s, h, <<>>) :
        s \in Statuses, h \in { EmptyDict, OneHeader(<<"e","t","a","g">>, <<"\"","e","1","\"">>) } }
    \cup { TransportFailure }

DeleteResponses ==
    { Response(s, EmptyDict, <<>>) : s \in Statuses } \cup { TransportFailure }

GetResponses ==
    { Response(s, EmptyDict, c) : s \in Statuses, c \in Payloads }
    \cup { TransportFailure }

HeadResponses ==
    { Response(s, h, <<>>) :
        s \in { 200, 204, 404, 500 },
        h \in { EmptyDict, OneHeader(<<"c","o","n","t","e","n","t","-","l","e","n","g","t","h">>, <<>>),
                OneHeader(<<"c","o","n","t","e","n","t","-","l","e","n","g","t","h">>, <<"1","2">>) } }
    \cup { TransportFailure }

PostResponses ==
    { Response(s, h, <<>>) :
        s \in Statuses,
        h \in { EmptyDict, OneHeader(<<"x","-","c","o","s","-","n","e","x","t","-","a","p","p","e","n","d","-","p","o","s","i","t","i","o","n">>, <<>>),
                OneHeader(<<"x","-","c","o","s","-","n","e","x","t","-","a","p","p","e","n","d","-","p","o","s","i","t","i","o","n">>, <<"7">>) } }
    \cup { TransportFailure }

\* response.headers.get(k): None when the header is absent
HeaderGet(resp, k) == IF k \in DOMAIN resp.headers THEN Some(resp.headers[k]) ELSE None

\* httpx.Response.raise_for_status raises HTTPStatusError unless the status is 2xx
RaisesForStatus(status) == ~(200 <= status /\ status <= 299)

(***************************************************************************)
(* Request building.                                                       *)
(***************************************************************************)
DefaultExpire == 10000

\* a or b on str
Or(a, b) == IF a # <<>> THEN a ELSE b

\* path = "/" + object_name if not object_name.startswith("/") else object_name
object_path(object_name) ==
    IF startswith(object_name, <<"/">>) THEN object_name ELSE <<"/">> \o object_name

\* headers["x-cos-security-token"] = session_token, when one is configured
with_token(cfg, headers) ==
    IF cfg.session_token # <<>>
    THEN DictSet(headers, <<"x","-","c","o","s","-","s","e","c","u","r","i","t","y","-","t","o","k","e","n">>, cfg.session_token)
    ELSE headers

Request(method, url, headers, content) ==
    [method |-> method, url |-> url, headers |-> headers, content |-> content]

\* The request of delete_file, file_exists, download_file and _get_file_size:
\* host header, optional token, authorization over no params.
plain_request(cfg, method, bucket, object_name, now) ==
    LET h == _get_host(cfg, bucket)
    IN  IF h.raised THEN h ELSE
        LET host == h.value
            path == object_path(object_name)
            url == <<"h","t","t","p","s",":","/","/">> \o host \o quote(path, <<"/","-","_",".","~">>)
            headers == with_token(cfg, OneHeader(<<"h","o","s","t">>, host))
            auth == _sign(cfg, method, path, EmptyDict, headers, DefaultExpire, now)
        IN  IF auth.raised THEN auth
            ELSE Return(Request(method, url,
                                DictSet(headers, <<"a","u","t","h","o","r","i","z","a","t","i","o","n">>, auth.value), <<>>))

\* COSStorage._read_file_data
_read_file_data(file) ==
    IF file.data.kind = "none" THEN <<>> ELSE file.data.bytes

RECURSIVE add_metadata(_, _)
\* for k, v in file.metadata.items(): headers["x-cos-meta-" + k] = v
add_metadata(headers, its) ==
    IF its = <<>> THEN headers
    ELSE add_metadata(DictSet(headers, <<"x","-","c","o","s","-","m","e","t","a","-">> \o its[1][1], its[1][2]),
                      Tail(its))

\* COSStorage._build_url
_build_url(cfg, bucket, object_name) ==
    LET h == _get_host(cfg, bucket)
    IN  IF h.raised THEN h
        ELSE Return(<<"h","t","t","p","s",":","/","/">> \o h.value \o <<"/">> \o quote(object_name, <<"/","-","_",".","~">>))

\* COSStorage._get_presigned_url
_get_presigned_url(cfg, bucket, object_name, method, expires_in, now) ==
    LET h == _get_host(cfg, bucket)
    IN  IF h.raised THEN h ELSE
        LET host == h.value
            path == object_path(object_name)
            encoded_path == quote(path, <<"/","-","_",".","~">>)
            auth == _sign(cfg, method, path, EmptyDict, OneHeader(<<"h","o","s","t">>, host),
                          expires_in, now)
        IN  IF auth.raised THEN auth
            ELSE Return(<<"h","t","t","p","s",":","/","/">> \o host \o encoded_path \o <<"?">> \o auth.value)

\* upload_file up to the PUT: bucket, data, host, headers, signature
upload_request(cfg, file, bucket_name, now) ==
    LET b == _get_bucket(cfg, Or(bucket_name, file.bucket_name))
    IN  IF b.raised THEN b ELSE
        LET data == _read_file_data(file)
            h == _get_host(cfg, b.value)
        IN  IF h.raised THEN h ELSE
            LET host == h.value
                path == object_path(file.object_name)
                url == <<"h","t","t","p","s",":","/","/">> \o host \o quote(path, <<"/","-","_",".","~">>)
                h0 == DictSet(OneHeader(<<"h","o","s","t">>, host), <<"c","o","n","t","e","n","t","-","l","e","n","g","t","h">>,
                              Str(Len(data)))
                h1 == IF file.content_type # <<>>
                      THEN DictSet(h0, <<"c","o","n","t","e","n","t","-","t","y","p","e">>, file.content_type) ELSE h0
                h2 == add_metadata(h1, items(file.metadata))
                headers == with_token(cfg, h2)
                auth == _sign(cfg, <<"P","U","T">>, path, EmptyDict, headers, DefaultExpire, now)
            IN  IF auth.raised THEN auth
                ELSE Return(Request(<<"P","U","T">>, url,
                                    DictSet(headers, <<"a","u","t","h","o","r","i","z","a","t","i","o","n">>, auth.value),
                                    data))

\* upload_file after the PUT
upload_result(cfg, file, bucket_name, resp) ==
    IF resp.kind = "RequestError" THEN Raise("StorageBackendError", "request")
    ELSE IF RaisesForStatus(resp.status_code)
    THEN Raise("StorageBackendError", "status")
    ELSE LET bucket == _get_bucket(cfg, Or(bucket_name, file.bucket_name)).value
             got == HeaderGet(resp, <<"e","t","a","g">>)
             etag == strip(IF got = None THEN <<>> ELSE got[1], "\"")
             url == _build_url(cfg, bucket, file.object_name)
         IN  IF url.raised THEN url
             ELSE Return([url |-> url.value, bucket_name |-> bucket,
                          object_name |-> file.object_name,
                          etag |-> IF etag # <<>> THEN Some(etag) ELSE None])

\* delete_file with 404 left to raise_for_status
delete_result_404_raises(resp) ==
    IF resp.kind = "RequestError" THEN Raise("StorageBackendError", "request")
    ELSE IF resp.status_code \notin {200, 204} /\ RaisesForStatus(resp.status_code)
    THEN Raise("StorageBackendError", "status")
    ELSE Return(None)

\* delete_file after the DELETE
delete_result(resp) ==
    IF resp.kind = "RequestError" THEN Raise("StorageBackendError", "request")
    ELSE IF resp.status_code \notin {200, 204, 404} /\ RaisesForStatus(resp.status_code)
    THEN Raise("StorageBackendError", "status")
    ELSE Return(None)

\* file_exists without its except clauses
exists_result_uncaught(resp) ==
    IF resp.kind = "RequestError" THEN Raise("RequestError", "request")
    ELSE Return(resp.status_code = 200)

\* file_exists after the HEAD
exists_result(resp) ==
    IF resp.kind = "RequestError" THEN Return(FALSE)
    ELSE Return(resp.status_code = 200)

\* download_file without its 404 test
download_result_no_404(resp) ==
    IF resp.kind = "RequestError" THEN Raise("StorageBackendError", "request")
    ELSE IF RaisesForStatus(resp.status_code)
    THEN Raise("StorageBackendError", "status")
    ELSE Return(resp.content)

\* download_file after the GET
download_result(resp) ==
    IF resp.kind = "RequestError" THEN Raise("StorageBackendError", "request")
    ELSE IF resp.status_code = 404 THEN Raise("StorageNotFoundError", "absent")
    ELSE IF RaisesForStatus(resp.status_code)
    THEN Raise("StorageBackendError", "status")
    ELSE Return(resp.content)

\* _get_file_size after the HEAD
file_size_result(resp) ==
    IF resp.kind = "RequestError" THEN 0
    ELSE IF resp.status_code = 200
    THEN LET content_length == HeaderGet(resp, <<"c","o","n","t","e","n","t","-","l","e","n","g","t","h">>)
         IN  IF content_length # None /\ content_length[1] # <<>>
             THEN ParseInt(content_length[1]) ELSE 0
    ELSE 0

\* append_file from the resolved position up to the POST
append_request(cfg, bucket, object_name, data, position, now) ==
    LET h == _get_host(cfg, bucket)
    IN  IF h.raised THEN h ELSE
        LET host == h.value
            path == object_path(object_name)
            params == DictSet(OneHeader(<<"a","p","p","e","n","d">>, <<>>), <<"p","o","s","i","t","i","o","n">>, Str(position))
            url == <<"h","t","t","p","s",":","/","/">> \o host \o quote(path, <<"/","-","_",".","~">>)
                   \o <<"?","a","p","p","e","n","d","=","&","p","o","s","i","t","i","o","n","=">> \o Str(position)
            headers == with_token(cfg,
                          DictSet(OneHeader(<<"h","o","s","t">>, host), <<"c","o","n","t","e","n","t","-","l","e","n","g","t","h">>,
                                  Str(Len(data))))
            auth == _sign(cfg, <<"P","O","S","T">>, path, params, headers, DefaultExpire, now)
        IN  IF auth.raised THEN auth
            ELSE Return([method |-> <<"P","O","S","T">>, url |-> url, params |-> params,
                         headers |-> DictSet(headers, <<"a","u","t","h","o","r","i","z","a","t","i","o","n">>, auth.value),
                         content |-> data])

\* append_file returning position + len(data) whatever the response says
append_result_no_header(position, data, resp) ==
    IF resp.kind = "RequestError" THEN Raise("StorageBackendError", "request")
    ELSE IF RaisesForStatus(resp.status_code)
    THEN Raise("StorageBackendError", "status")
    ELSE Return(position + Len(data))

\* append_file after the POST
append_result(position, data, resp) ==
    IF resp.kind = "RequestError" THEN Raise("StorageBackendError", "request")
    ELSE IF RaisesForStatus(resp.status_code)
    THEN Raise("StorageBackendError", "status")
    ELSE LET next_position == HeaderGet(resp, <<"x","-","c","o","s","-","n","e","x","t","-","a","p","p","e","n","d","-","p","o","s","i","t","i","o","n">>)
         IN  IF next_position # None /\ next_position[1] # <<>>
             THEN Return(ParseInt(next_position[1]))
             ELSE Return(position + Len(data))

(***************************************************************************)
(* One COSStorage used by one caller: an operation is called after the     *)
(* previous one has finished; the coroutine runs to its await, and from    *)
(* there to its end once the server has answered.                          *)
(***************************************************************************)
MaxClients == 2

NetworkOps == {"upload_file", "delete_file", "file_exists", "download_file",
               "append_file"}

Positions == { None, Some(0), Some(3) }
Expiries == { None, Some(0), Some(3600) }

\* The arguments each operation is called with.
ArgsOf(op) ==
    CASE op = "upload_file" ->
            [file : Files, bucket_name : BucketArgs]
      [] op \in {"delete_file", "file_exists", "download_file"} ->
            [object_name : ObjectNames, bucket_name : BucketArgs]
      [] op = "append_file" ->
            [object_name : ObjectNames, data : Payloads, bucket_name : BucketArgs,
             position : Positions]
      [] op = "get_file_url" ->
            [object_name : ObjectNames, bucket_name : BucketArgs,
             expires_in : Expiries]
      [] op = "close" -> { <<>> }

NoCall ==
    [op |-> "none", args |-> <<>>, pc |-> "idle", requests |-> <<>>,
     responses |-> <<>>, position |-> None, outcome |-> None]

NoBatch == [pc |-> "idle"]
NoCoros == <<>>

\* COSStorage.__init__
Init ==
    /\ config \in Configs
    /\ client = 0
    /\ clients = <<>>
    /\ call = NoCall
    /\ signIn = None
    /\ signOut = None
    /\ batch = NoBatch
    /\ coros = NoCoros

\* The caller is not inside an operation.
Idle == call.pc \in {"idle", "done"}

\* The caller calls an operation: its coroutine exists and has not run yet.
Invoke ==
    \E op \in NetworkOps \cup {"get_file_url", "close"} :
        \E args \in ArgsOf(op) :
            /\ Idle
            /\ op \in NetworkOps => (client # 0 \/ Len(clients) < MaxClients)
            /\ call' = [NoCall EXCEPT !.op = op, !.args = args, !.pc = "called"]
            /\ UNCHANGED <<config, client, clients, signIn, signOut, batch, coros>>

Called(op) == call.pc = "called" /\ call.op = op

\* _ensure_client without its `is None` test
_ensure_client_unconditional ==
    /\ client' = Len(clients) + 1
    /\ clients' = Append(clients, "open")

\* COSStorage._ensure_client
_ensure_client ==
    IF client = 0
    THEN /\ client' = Len(clients) + 1
         /\ clients' = Append(clients, "open")
    ELSE UNCHANGED <<client, clients>>

\* The coroutine has run to its await on the request, or to the error raised
\* before any request.
AtAwait(prep, pc) ==
    call' = IF prep.raised
            THEN [call EXCEPT !.pc = "done", !.outcome = prep]
            ELSE [call EXCEPT !.pc = pc, !.requests = Append(@, prep.value)]

\* The bucket resolved, then the plain request of the given method.
plain_call(cfg, method, object_name, bucket_name, now) ==
    LET b == _get_bucket(cfg, bucket_name)
    IN  IF b.raised THEN b ELSE plain_request(cfg, method, b.value, object_name, now)

\* COSStorage.upload_file, to its await
UploadFile ==
    /\ Called("upload_file")
    /\ _ensure_client
    /\ \E now \in Clock :
        AtAwait(upload_request(config, call.args.file, call.args.bucket_name, now),
                "send")
    /\ UNCHANGED <<config, signIn, signOut, batch, coros>>

\* COSStorage.delete_file, to its await
DeleteFile ==
    /\ Called("delete_file")
    /\ _ensure_client
    /\ \E now \in Clock :
        AtAwait(plain_call(config, <<"D","E","L","E","T","E">>, call.args.object_name,
                           call.args.bucket_name, now), "send")
    /\ UNCHANGED <<config, signIn, signOut, batch, coros>>

\* COSStorage.file_exists, to its await
FileExists ==
    /\ Called("file_exists")
    /\ _ensure_client
    /\ \E now \in Clock :
        AtAwait(plain_call(config, <<"H","E","A","D">>, call.args.object_name,
                           call.args.bucket_name, now), "send")
    /\ UNCHANGED <<config, signIn, signOut, batch, coros>>

\* COSStorage.download_file, to its await
DownloadFile ==
    /\ Called("download_file")
    /\ _ensure_client
    /\ \E now \in Clock :
        AtAwait(plain_call(config, <<"G","E","T">>, call.args.object_name,
                           call.args.bucket_name, now), "send")
    /\ UNCHANGED <<config, signIn, signOut, batch, coros>>

\* COSStorage.append_file, to its first await: the HEAD of _get_file_size when
\* no position is given, the POST otherwise
AppendFile ==
    /\ Called("append_file")
    /\ _ensure_client
    /\ \E now \in Clock :
        LET b == _get_bucket(config, call.args.bucket_name)
            position == call.args.position
        IN  IF b.raised THEN AtAwait(b, "done")
            ELSE IF position = None
            THEN AtAwait(plain_request(config, <<"H","E","A","D">>, b.value,
                                       call.args.object_name, now), "head")
            ELSE LET prep == append_request(config, b.value, call.args.object_name,
                                            call.args.data, position[1], now)
                 IN  call' = IF prep.raised
                             THEN [call EXCEPT !.pc = "done", !.outcome = prep]
                             ELSE [call EXCEPT !.pc = "send",
                                               !.position = position,
                                               !.requests = Append(@, prep.value)]
    /\ UNCHANGED <<config, signIn, signOut, batch, coros>>

\* _get_file_size returns into append_file, which goes on to its POST
HeadResponds ==
    /\ call.pc = "head"
    /\ \E resp \in HeadResponses, now \in Clock :
        LET position == file_size_result(resp)
            bucket == _get_bucket(config, call.args.bucket_name).value
            prep == append_request(config, bucket, call.args.object_name,
                                   call.args.data, position, now)
        IN  call' = IF prep.raised
                    THEN [call EXCEPT !.pc = "done",
                                      !.responses = Append(@, resp),
                                      !.position = Some(position),
                                      !.outcome = prep]
                    ELSE [call EXCEPT !.pc = "send",
                                      !.requests = Append(@, prep.value),
                                      !.responses = Append(@, resp),
                                      !.position = Some(position)]
    /\ UNCHANGED <<config, client, clients, signIn, signOut, batch, coros>>

\* What the server may answer to the request an operation waits on.
ResponsesTo(op) ==
    CASE op = "upload_file" -> PutResponses
      [] op = "delete_file" -> DeleteResponses
      [] op = "file_exists" -> HeadResponses
      [] op = "download_file" -> GetResponses
      [] op = "append_file" -> PostResponses

\* The operation from its awaited response to its end.
result_of(cfg, c, resp) ==
    CASE c.op = "upload_file" ->
            upload_result(cfg, c.args.file, c.args.bucket_name, resp)
      [] c.op = "delete_file" -> delete_result(resp)
      [] c.op = "file_exists" -> exists_result(resp)
      [] c.op = "download_file" -> download_result(resp)
      [] c.op = "append_file" -> append_result(c.position[1], c.args.data, resp)

\* The awaited request completes and the operation runs to its end.
Responds ==
    /\ call.pc = "send"
    /\ \E resp \in ResponsesTo(call.op) :
        call' = [call EXCEPT !.pc = "done",
                             !.responses = Append(@, resp),
                             !.outcome = result_of(config, call, resp)]
    /\ UNCHANGED <<config, client, clients, signIn, signOut, batch, coros>>

\* COSStorage.get_file_url
get_file_url(cfg, object_name, bucket_name, expires_in, now) ==
    LET b == _get_bucket(cfg, bucket_name)
    IN  IF b.raised THEN b
        ELSE IF expires_in # None /\ expires_in[1] # 0
        THEN _get_presigned_url(cfg, b.value, object_name, <<"G","E","T">>, expires_in[1], now)
        ELSE _build_url(cfg, b.value, object_name)

GetFileUrl ==
    /\ Called("get_file_url")
    /\ \E now \in Clock :
        call' = [call EXCEPT !.pc = "done",
                             !.outcome = get_file_url(config, call.args.object_name,
                                                      call.args.bucket_name,
                                                      call.args.expires_in, now)]
    /\ UNCHANGED <<config, client, clients, signIn, signOut, batch, coros>>

\* COSStorage.close, with no other coroutine running
close ==
    IF client # 0
    THEN /\ clients' = [clients EXCEPT ![client] = "closed"]
         /\ client' = 0
    ELSE UNCHANGED <<client, clients>>

Close ==
    /\ Called("close")
    /\ close
    /\ call' = [call EXCEPT !.pc = "done", !.outcome = Return(None)]
    /\ UNCHANGED <<config, signIn, signOut, batch, coros>>

Next ==
    \/ Invoke
    \/ UploadFile
    \/ DeleteFile
    \/ FileExists
    \/ DownloadFile
    \/ AppendFile
    \/ HeadResponds
    \/ Responds
    \/ GetFileUrl
    \/ Close

Spec == Init /\ [][Next]_vars

(***************************************************************************)
(* _sign called directly, once, on arbitrary params and headers.           *)
(***************************************************************************)
\* Every dict with keys among K and values among V.
Dicts(K, V) == UNION { [S -> V] : S \in SUBSET K }

SignParams == Dicts({ <<"a">>, <<"B">>, <<"a","p","p","e","n","d">> }, { <<>>, <<"1"," ","2">> })
SignHeaders ==
    Dicts({ <<"h","o","s","t">>, <<"C","o","n","t","e","n","t","-","T","y","p","e">>, <<"x","-","c","o","s","-","m","e","t","a","-","B">>, <<"x","-","c","o","s","-","m","e","t","a","-","a">>,
            <<"x","-","c","u","s","t","o","m","-","f","o","o">> }, { <<"v">> })
SignTimes == { 60, 1000 }

SignInit ==
    /\ config \in { BaseConfig, [BaseConfig EXCEPT !.access_key_id = <<>>] }
    /\ client = 0
    /\ clients = <<>>
    /\ call = NoCall
    /\ signIn = None
    /\ signOut = None
    /\ batch = NoBatch
    /\ coros = NoCoros

SignCall ==
    /\ signIn = None
    /\ \E method \in { <<"G","E","T">>, <<"P","U","T">> }, params \in SignParams,
          headers \in SignHeaders, expire \in { DefaultExpire, 3600 },
          now \in SignTimes :
        signIn' = [method |-> method, path |-> <<"/","k">>, params |-> params,
                   headers |-> headers, expire |-> expire, now |-> now]
    /\ UNCHANGED <<config, client, clients, call, signOut, batch, coros>>

\* _sign runs: its result and, unless it raised for want of credentials,
\* the two canonical strings and the two name lists it built on the way.
SignReturn ==
    /\ signIn # None
    /\ signOut = None
    /\ LET result == _sign(config, signIn.method, signIn.path, signIn.params,
                            signIn.headers, signIn.expire, signIn.now)
       IN  signOut' =
             IF result.raised THEN [result |-> result]
             ELSE [result |-> result,
                   param_pairs |-> canonical_pairs(signIn.params),
                   header_pairs |-> canonical_pairs(_filter_headers(signIn.headers)),
                   param_list |-> key_list(signIn.params),
                   header_list |-> key_list(_filter_headers(signIn.headers))]
    /\ UNCHANGED <<config, client, clients, call, signIn, batch, coros>>

SignNext == SignCall \/ SignReturn

SignSpec == SignInit /\ [][SignNext]_vars

\* The keys of a canonical string, in the order they appear in it.
PairKeys(pairs) == [i \in 1..Len(pairs) |-> pairs[i][1]]

\* No element of the list is followed by a smaller one.
Ascending(l) == \A i, j \in 1..Len(l) : i < j => ~StrLT(l[j], l[i])

QuoteAll(l) == [i \in 1..Len(l) |-> quote(l[i], <<"-","_",".","~">>)]

\* C9: in the canonical request string built by _sign the pairs of the query
\* string and of the header string are in ascending order of their encoded
\* lower-cased key, the order of the names in q-url-param-list and
\* q-header-list.
C9_CanonicalOrder ==
    (signOut # None /\ ~signOut.result.raised) =>
        /\ Ascending(PairKeys(signOut.param_pairs))
        /\ Ascending(PairKeys(signOut.header_pairs))
        /\ PairKeys(signOut.param_pairs) = QuoteAll(signOut.param_list)
        /\ PairKeys(signOut.header_pairs) = QuoteAll(signOut.header_list)

(***************************************************************************)
(* upload_files: one upload_file coroutine per file, run by asyncio.gather *)
(* as tasks of the event loop beside the caller.                           *)
(***************************************************************************)
MaxFiles == 3

BatchConfigs == { BaseConfig, [BaseConfig EXCEPT !.bucket_name = <<>>] }
BatchFiles == { f \in Files : f.metadata = EmptyDict }
FileLists == UNION { [1..n -> BatchFiles] : n \in 0..MaxFiles }
BatchResponses ==
    { Response(200, OneHeader(<<"e","t","a","g">>, <<"\"","e","1","\"">>), <<>>),
      Response(500, EmptyDict, <<>>), TransportFailure }

BatchInit ==
    /\ config \in BatchConfigs
    /\ client = 0
    /\ clients = <<>>
    /\ call = NoCall
    /\ signIn = None
    /\ signOut = None
    /\ batch = NoBatch
    /\ coros = NoCoros

\* A task of the batch; url is where its PUT went once it is sent.
NewTask == [pc |-> "created", url |-> None, outcome |-> None]

\* The future asyncio.gather returns: pending until every child has a
\* result or one child has raised.
PendingFuture == [state |-> "pending", finished |-> <<>>, value |-> None]

\* COSStorage.upload_files, to its await: the coroutines are created, gather
\* schedules each as a task and the caller waits on gather's future.
UploadFiles ==
    /\ batch.pc = "idle"
    /\ \E files \in FileLists, bucket_name \in BucketArgs :
        batch' = [pc |-> "await", files |-> files, bucket_name |-> bucket_name,
                  tasks |-> [i \in 1..Len(files) |-> NewTask],
                  outer |-> IF files = <<>>
                            THEN [state |-> "result", finished |-> <<>>,
                                  value |-> <<>>]
                            ELSE PendingFuture,
                  outcome |-> None]
    /\ UNCHANGED <<config, client, clients, call, signIn, signOut, coros>>

\* the results in the order the children finished
gather_results_as_completed(tasks, finished) ==
    [k \in 1..Len(tasks) |-> tasks[finished[k]].outcome.value]

\* [fut.result() for fut in children]: the results in the order of the
\* children, which is the order of the files
gather_results(tasks, finished) == [i \in 1..Len(tasks) |-> tasks[i].outcome.value]

\* gather's callback on a finished child: the first exception, or the last
\* result, settles the future
done_callback(outer, tasks, i) ==
    IF outer.state # "pending" THEN outer
    ELSE IF tasks[i].outcome.raised
    THEN [outer EXCEPT !.state = "exception", !.value = tasks[i].outcome]
    ELSE LET finished == Append(outer.finished, i)
         IN  IF Len(finished) = Len(tasks)
             THEN [state |-> "result", finished |-> finished,
                   value |-> gather_results(tasks, finished)]
             ELSE [outer EXCEPT !.finished = finished]

\* Task i finishes with the given outcome and gather's callback runs.
Finish(i, outcome) ==
    LET tasks == [batch.tasks EXCEPT ![i].pc = "done", ![i].outcome = outcome]
    IN  batch' = [batch EXCEPT !.tasks = tasks,
                               !.outer = done_callback(batch.outer, tasks, i)]

\* The loop runs task i for the first time (tasks start in the order gather
\* scheduled them): upload_file to its await, or to the error before it.
TaskRuns ==
    /\ batch.pc # "idle"
    /\ \E i \in 1..Len(batch.tasks), now \in Clock :
        /\ batch.tasks[i].pc = "created"
        /\ \A j \in 1..(i - 1) : batch.tasks[j].pc # "created"
        /\ _ensure_client
        /\ LET prep == upload_request(config, batch.files[i], batch.bucket_name, now)
           IN  IF prep.raised
               THEN Finish(i, prep)
               ELSE batch' = [batch EXCEPT !.tasks[i].pc = "await",
                                           !.tasks[i].url = Some(prep.value.url)]
    /\ UNCHANGED <<config, call, signIn, signOut, coros>>

\* The PUT of task i completes and the task runs to its end.
TaskResponds ==
    /\ batch.pc # "idle"
    /\ \E i \in 1..Len(batch.tasks), resp \in BatchResponses :
        /\ batch.tasks[i].pc = "await"
        /\ \A j \in 1..Len(batch.tasks) : batch.tasks[j].pc # "created"
        /\ Finish(i, upload_result(config, batch.files[i], batch.bucket_name, resp))
    /\ UNCHANGED <<config, client, clients, call, signIn, signOut, coros>>

\* The caller resumes from `await asyncio.gather(...)` once the future is
\* settled: upload_files returns the list or raises the exception.
GatherResumes ==
    /\ batch.pc = "await"
    /\ batch.outer.state # "pending"
    /\ \A j \in 1..Len(batch.tasks) : batch.tasks[j].pc # "created"
    /\ batch' = [batch EXCEPT
                    !.pc = IF batch.outer.state = "result" THEN "returned" ELSE "raised",
                    !.outcome = IF batch.outer.state = "result"
                                THEN Return(batch.outer.value)
                                ELSE batch.outer.value]
    /\ UNCHANGED <<config, client, clients, call, signIn, signOut, coros>>

BatchNext == UploadFiles \/ TaskRuns \/ TaskResponds \/ GatherResumes

BatchSpec == BatchInit /\ [][BatchNext]_vars

(***************************************************************************)
(* Coroutines of one event loop calling close() and file_exists() on the   *)
(* same COSStorage: each runs without interruption between its awaits.     *)
(***************************************************************************)
MaxCoros == 3

RaceConfigs == { BaseConfig, [BaseConfig EXCEPT !.access_key_secret = <<>>] }

Free == [kind |-> "none", pc |-> "free"]

RaceInit ==
    /\ config \in RaceConfigs
    /\ client = 0
    /\ clients = <<>>
    /\ call = NoCall
    /\ signIn = None
    /\ signOut = None
    /\ batch = NoBatch
    /\ coros = [i \in 1..MaxCoros |-> Free]

\* COSStorage.close, to its await or its end.  httpx.AsyncClient.aclose()
\* marks the client closed at once and then awaits the transport's close,
\* which may suspend the coroutine; on a client that is closed already it
\* returns without suspending.
CloseRuns ==
    \E i \in 1..MaxCoros :
        /\ coros[i] = Free
        /\ IF client = 0
           THEN UNCHANGED <<client, clients, coros>>
           ELSE IF clients[client] = "closed"
           THEN /\ client' = 0
                /\ UNCHANGED <<clients, coros>>
           ELSE /\ clients' = [clients EXCEPT ![client] = "closed"]
                /\ \/ /\ coros' = [coros EXCEPT ![i] = [kind |-> "close",
                                                        pc |-> "aclose"]]
                      /\ UNCHANGED client
                   \/ /\ client' = 0
                      /\ UNCHANGED coros
        /\ UNCHANGED <<config, call, signIn, signOut, batch>>

\* close resumes after `await self._client.aclose()`: self._client = None
CloseResumes ==
    \E i \in 1..MaxCoros :
        /\ coros[i].pc = "aclose"
        /\ client' = 0
        /\ coros' = [coros EXCEPT ![i] = Free]
        /\ UNCHANGED <<config, clients, call, signIn, signOut, batch>>

\* COSStorage.file_exists, to its await: the held client (created when none
\* is held) sends the HEAD.  The operation ends here when an error is raised
\* before the request, or when the held client is already closed and refuses
\* to send.
OpRuns ==
    \E i \in 1..MaxCoros, object_name \in ObjectNames, now \in Clock :
        /\ coros[i] = Free
        /\ client # 0 \/ Len(clients) < MaxClients
        /\ _ensure_client
        /\ LET prep == plain_call(config, <<"H","E","A","D">>, object_name, <<>>, now)
           IN  IF prep.raised \/ clients'[client'] = "closed"
               THEN UNCHANGED coros
               ELSE coros' = [coros EXCEPT ![i] = [kind |-> "file_exists",
                                                   pc |-> "await",
                                                   client |-> client',
                                                   request |-> prep.value]]
        /\ UNCHANGED <<config, call, signIn, signOut, batch>>

\* The HEAD of a waiting file_exists completes and the coroutine ends.
OpResponds ==
    \E i \in 1..MaxCoros :
        /\ coros[i].pc = "await"
        /\ coros' = [coros EXCEPT ![i] = Free]
        /\ UNCHANGED <<config, client, clients, call, signIn, signOut, batch>>

RaceNext == CloseRuns \/ CloseResumes \/ OpRuns \/ OpResponds

RaceSpec == RaceInit /\ [][RaceNext]_vars

\* C10: under every interleaving of close() calls and network operations no
\* client is dropped while still open: a client that is not the held one
\* has been released.
C10_NoOpenClientDropped ==
    \A id \in 1..Len(clients) : clients[id] = "open" => client = id

(***************************************************************************)
(* Properties of upload_files (BatchSpec).                                 *)
(***************************************************************************)
\* C5: when every upload of a batch succeeds, upload_files returns one
\* result per file and the i-th result is that of the i-th file (its object
\* key and its bucket), whatever the order in which the uploads completed.
C5_ResultsInInputOrder ==
    batch.pc = "returned" =>
        LET results == batch.outcome.value
        IN  /\ Len(results) = Len(batch.files)
            /\ \A i \in 1..Len(batch.files) :
                /\ results[i].object_name = batch.files[i].object_name
                /\ results[i].bucket_name =
                       Or(Or(batch.bucket_name, batch.files[i].bucket_name),
                          config.bucket_name)

\* Two different files, the second uploaded first, and the batch returned.
C5_Witness ==
    /\ batch.pc = "returned"
    /\ Len(batch.files) = 2
    /\ batch.files[1].object_name # batch.files[2].object_name
    /\ batch.outer.finished = <<2, 1>>

\* C6: upload_files returns or raises only after every one of its uploads
\* has finished: no upload of the batch is in flight at that moment.
C6_CompletesAfterAll ==
    batch.pc \in {"returned", "raised"} =>
        \A i \in 1..Len(batch.tasks) : batch.tasks[i].pc = "done"

(***************************************************************************)
(* Properties of sequential use (Spec).                                    *)
(***************************************************************************)
\* The call's bucket, host and credentials resolve.
Configured(bucket_name) ==
    /\ bucket_name # <<>> \/ config.bucket_name # <<>>
    /\ config.endpoint # <<>> \/ config.region # <<>>
    /\ config.access_key_id # <<>> /\ config.access_key_secret # <<>>

Finished(op) == call.op = op /\ call.pc = "done"

IsBackendError(outcome) == outcome.raised /\ outcome.kind = "StorageBackendError"
IsNotFound(outcome) == outcome.raised /\ outcome.kind = "StorageNotFoundError"

\* The response the operation's last request got.
LastResponse == call.responses[Len(call.responses)]

\* C1 as stated: delete_file succeeds when the DELETE is answered 200, 204
\* or 404 and fails with a backend error on every other status and on every
\* transport failure.
C1_DeleteOnly200_204_404 ==
    (Finished("delete_file") /\ Configured(call.args.bucket_name)) =>
        /\ Len(call.requests) = 1 /\ Len(call.responses) = 1
        /\ IF LastResponse.kind = "response"
              /\ LastResponse.status_code \in {200, 204, 404}
           THEN call.outcome = Return(None)
           ELSE IsBackendError(call.outcome)

\* C1 amended: delete_file succeeds when the DELETE is answered 404 or any
\* 2xx status, and fails with a backend error on every other status and on
\* every transport failure.
C1_DeleteSuccessOrBackendError ==
    (Finished("delete_file") /\ Configured(call.args.bucket_name)) =>
        /\ Len(call.requests) = 1 /\ Len(call.responses) = 1
        /\ IF LastResponse.kind = "response"
              /\ (LastResponse.status_code = 404
                  \/ LastResponse.status_code \in 200..299)
           THEN call.outcome = Return(None)
           ELSE IsBackendError(call.outcome)

\* A delete of an absent key has succeeded.
C1_Witness ==
    /\ Finished("delete_file")
    /\ Configured(call.args.bucket_name)
    /\ LastResponse.kind = "response" /\ LastResponse.status_code = 404
    /\ ~call.outcome.raised

\* C2: download_file has three outcomes: 404 raises the not-found error,
\* every other failure status and every transport failure raises the
\* backend error, a success status returns the body unchanged.
C2_DownloadOutcomes ==
    (Finished("download_file") /\ Configured(call.args.bucket_name)) =>
        /\ Len(call.requests) = 1 /\ Len(call.responses) = 1
        /\ IF LastResponse.kind = "RequestError"
           THEN IsBackendError(call.outcome)
           ELSE IF LastResponse.status_code = 404
           THEN IsNotFound(call.outcome)
           ELSE IF LastResponse.status_code \in 200..299
           THEN call.outcome = Return(LastResponse.content)
           ELSE IsBackendError(call.outcome)

\* A download answered 404 has raised the not-found error.
C2_Witness ==
    /\ Finished("download_file")
    /\ Configured(call.args.bucket_name)
    /\ LastResponse.kind = "response" /\ LastResponse.status_code = 404
    /\ IsNotFound(call.outcome)

\* C3: file_exists never raises: true exactly on a 200 answer, false on
\* every other status and on every transport failure.
C3_ExistsNeverRaises ==
    (Finished("file_exists") /\ Configured(call.args.bucket_name)) =>
        /\ Len(call.requests) = 1 /\ Len(call.responses) = 1
        /\ call.outcome =
             Return(LastResponse.kind = "response" /\ LastResponse.status_code = 200)

\* An existence check whose request failed in transport has returned false.
C3_Witness ==
    /\ Finished("file_exists")
    /\ Configured(call.args.bucket_name)
    /\ LastResponse.kind = "RequestError"
    /\ call.outcome = Return(FALSE)

\* The bucket argument the call resolves its bucket from.
BucketArgument ==
    IF call.op = "upload_file"
    THEN Or(call.args.bucket_name, call.args.file.bucket_name)
    ELSE call.args.bucket_name

\* C4: an operation called without a resolvable bucket, host or credentials
\* fails with a configuration error, a kind of its own, before any request.
C4_ConfigurationError ==
    ( /\ call.pc = "done"
      /\ \/ call.op \in NetworkOps
         \/ /\ call.op = "get_file_url"
            /\ call.args.expires_in # None /\ call.args.expires_in[1] # 0
      /\ ~Configured(BucketArgument) ) =>
        /\ call.outcome.raised
        /\ call.outcome.kind = "ConfigurationError"
        /\ call.requests = <<>>

\* The start position append_file is to work on.
StartPosition ==
    IF call.args.position # None THEN call.args.position[1]
    ELSE LET head == call.responses[1]
         IN  IF /\ head.kind = "response"
                /\ head.status_code = 200
                /\ <<"c","o","n","t","e","n","t","-","l","e","n","g","t","h">> \in DOMAIN head.headers
                /\ head.headers[<<"c","o","n","t","e","n","t","-","l","e","n","g","t","h">>] # <<>>
             THEN ParseInt(head.headers[<<"c","o","n","t","e","n","t","-","l","e","n","g","t","h">>])
             ELSE 0

\* C7: append_file works on the explicit position without a HEAD, otherwise
\* on the size one HEAD reports (0 when it fails, is not answered 200 or has
\* no content-length); the POST carries position=p; a successful POST
\* returns the next-append-position header, or p + len(data) without it.
C7_AppendPosition ==
    ( /\ call.op = "append_file"
      /\ call.pc \in {"send", "done"}
      /\ Configured(call.args.bucket_name) ) =>
        LET post == call.requests[Len(call.requests)]
        IN  /\ IF call.args.position # None
               THEN Len(call.requests) = 1
               ELSE /\ Len(call.requests) = 2
                    /\ call.requests[1].method = <<"H","E","A","D">>
            /\ post.method = <<"P","O","S","T">>
            /\ post.params[<<"p","o","s","i","t","i","o","n">>] = Str(StartPosition)
            /\ (call.pc = "done" /\ LastResponse.kind = "response"
                /\ LastResponse.status_code \in 200..299) =>
                 LET h == LastResponse.headers
                     k == <<"x","-","c","o","s","-","n","e","x","t","-","a","p","p","e","n","d","-","p","o","s","i","t","i","o","n">>
                 IN  call.outcome =
                        Return(IF k \in DOMAIN h /\ h[k] # <<>>
                               THEN ParseInt(h[k])
                               ELSE StartPosition + Len(call.args.data))

\* A first append to an absent key with no position given: HEAD answered
\* 404, POST answered without the header, two bytes appended.
C7_Witness ==
    /\ Finished("append_file")
    /\ call.args.position = None
    /\ Len(call.responses) = 2
    /\ call.responses[1].kind = "response" /\ call.responses[1].status_code = 404
    /\ call.responses[2].kind = "response" /\ call.responses[2].status_code = 200
    /\ call.responses[2].headers = EmptyDict
    /\ call.args.data = <<"x","y">>
    /\ call.outcome = Return(2)

\* What one step may do to the held client.
ClientStep ==
    /\ (client' # client \/ clients' # clients) =>
          \/ /\ call.pc = "called" /\ call.op \in NetworkOps
             /\ client = 0
             /\ client' = Len(clients) + 1
             /\ clients' = Append(clients, "open")
          \/ /\ Called("close")
             /\ client # 0
             /\ client' = 0
             /\ clients' = [clients EXCEPT ![client] = "closed"]
    /\ (call.pc = "called" /\ call.op \in NetworkOps /\ call'.pc # "called") =>
          client' # 0
    /\ (Called("close") /\ call'.pc = "done") =>
          client' = 0 /\ call'.outcome = Return(None)

\* C8: in sequential use the object holds at most one client: none after
\* construction, one created by a network operation that finds none held
\* and reused by the later ones, released and forgotten by close, and close
\* with none held does nothing.
C8_OneClient ==
    /\ client = 0 /\ clients = <<>>
    /\ [](\A id \in 1..Len(clients) : clients[id] = "open" => client = id)
    /\ [][ClientStep]_vars

\* A client was created, closed, and another created by a later operation.
C8_Witness ==
    /\ Len(clients) = 2
    /\ clients[1] = "closed"
    /\ client = 2

====
